---- MODULE Spec2Model ----
(***************************************************************************)
(* Model of the two diagnostic scripts of Sayanho.Backend:                 *)
(*   inspect_db.py  - the Database Inspector                               *)
(*   read_excel.py  - the Spreadsheet Previewer                            *)
(* One behaviour is one run of one script against one external            *)
(* environment (database file or workbook) chosen in Init.                 *)
(***************************************************************************)
EXTENDS Integers, Sequences, FiniteSets, TLC

VARIABLES
    script,      \* which script this run executes
    pc,          \* position in the script
    fileState,   \* state of the database file at db_path
    db,          \* content of the database (Index table and sheet tables)
    workbook,    \* the spreadsheet file Schedule.xlsx
    conn,        \* "none" | "open" | "closed"
    opens,       \* number of sqlite3.connect calls that returned
    closes,      \* number of conn.close() calls
    itemIdx,     \* which of the hardcoded print_table_info calls is running
    sheet_name,  \* local of print_table_info
    columns,     \* local of print_table_info
    ci,          \* position of the for-loop over the interesting columns
    si,          \* position of the for-loop over xls.sheet_names
    err,         \* message of the exception being propagated / handled
    out,         \* everything printed so far
    queries,     \* every cursor.execute issued so far, with what it fetched
    exitStatus   \* exit status of the process: <<>> while it runs, <<n>> after

vars == <<script, pc, fileState, db, workbook, conn, opens, closes, itemIdx,
          sheet_name, columns, ci, si, err, out, queries, exitStatus>>

-----------------------------------------------------------------------------
(* Program constants *)

Null == "<NULL>"          \* SQL NULL / Python None

Items == <<"Main Switch Open", "MCCB", "MCB", "ACB">>

InterestingColumns ==
    <<"Type", "Pole", "Current Rating", "Company", "Enclosure", "Breaking Capacity">>

SampleLimit == 5
DistinctLimit == 10
PreviewRows == 5

(* Bounds of the environments explored *)
MaxRows == 13
MaxSheets == 3

-----------------------------------------------------------------------------
(* Generic helpers *)

Range(s) == {s[i] : i \in 1..Len(s)}

Min(a, b) == IF a < b THEN a ELSE b

Take(s, n) == SubSeq(s, 1, Min(n, Len(s)))

IsPrefix(s, t) == Len(s) <= Len(t) /\ SubSeq(t, 1, Len(s)) = s

\* SQL "a = b": NULL never compares equal
SqlEq(a, b) == a # Null /\ b # Null /\ a = b

P(k, item, a) == [k |-> k, item |-> item, a |-> a]

Q(kind, item, sheet, col, raised, result) ==
    [kind |-> kind, item |-> item, sheet |-> sheet, col |-> col,
     raised |-> raised, result |-> result]

-----------------------------------------------------------------------------
(* The external environments the scripts may run against *)

Layouts ==
    << <<"Item", "Type", "Pole", "Current Rating">>,
       <<"Rate", "Breaking Capacity", "Item", "Company", "Type">>,
       <<"Type", "Pole">>,
       <<"Item">>,
       <<"Item", "Type", "Pole", "Current Rating", "Company", "Enclosure",
         "Breaking Capacity">> >>

Patterns == {"dense", "mixed"}

ItemCycle == <<"Main Switch Open", "MCCB", Null, "MCB", "Other">>

ItemOfRow(i, p) ==
    IF p = "dense" THEN (IF i % 7 = 0 THEN "MCCB" ELSE "MCB")
    ELSE ItemCycle[(i % 5) + 1]

CellOfRow(i, j, p) ==
    IF p = "dense"
    THEN IF i = j THEN Null ELSE ToString(i)
    ELSE IF (i + j) % 3 = 0 THEN Null ELSE ToString((i * j) % 4)

MkRow(L, i, p) ==
    [c \in Range(L) |->
        IF c = "Item" THEN ItemOfRow(i, p)
        ELSE CellOfRow(i, CHOOSE j \in 1..Len(L) : L[j] = c, p)]

MkTable(L, n, p) == [cols |-> L, rows |-> [i \in 1..n |-> MkRow(L, i, p)]]

Tables == {MkTable(Layouts[l], n, p) :
              l \in 1..Len(Layouts), n \in 0..MaxRows, p \in Patterns}

\* what the Index says about each hardcoded item: no row, the existing
\* table S1, or a sheet S2 for which the file holds no table
IndexChoices == [1..Len(Items) -> {"absent", "S1", "S2"}]

MkIndex(ch) ==
    <<[Item |-> "Other", Sheet |-> "S9"]>> \o
    SelectSeq([i \in 1..Len(Items) |-> [Item |-> Items[i], Sheet |-> ch[i]]],
              LAMBDA r : r.Sheet # "absent")

NoDb == [hasIndex |-> FALSE, index |-> <<>>, tables |-> <<>>]

Databases ==
    {[hasIndex |-> TRUE, index |-> MkIndex(ch), tables |-> [s \in {"S1"} |-> t]] :
        ch \in IndexChoices, t \in Tables}
    \cup {[hasIndex |-> FALSE, index |-> <<>>,
           tables |-> [s \in {"S1"} |-> MkTable(Layouts[1], 1, "dense")]]}

SheetKinds == {[readable |-> TRUE, nrows |-> 3],
               [readable |-> TRUE, nrows |-> 7],
               [readable |-> FALSE, nrows |-> 0]}

SheetSeqs(n) == UNION {[1..m -> SheetKinds] : m \in 0..n}

NoWorkbook == [openable |-> FALSE, sheets |-> <<>>]

Workbooks ==
    {NoWorkbook} \cup {[openable |-> TRUE, sheets |-> s] : s \in SheetSeqs(MaxSheets)}

SheetNames(wb) == [i \in 1..Len(wb.sheets) |-> "Sheet" \o ToString(i)]

-----------------------------------------------------------------------------
(* What SQLite returns for the four statements print_table_info executes *)

HasTable(d, s) == s \in DOMAIN d.tables

\* Faulty variant: the sample statement empties the tables it reads
EffectDeletes(d, kind) ==
    IF kind = "sample"
    THEN [d EXCEPT !.tables =
            [s \in DOMAIN d.tables |-> [d.tables[s] EXCEPT !.rows = <<>>]]]
    ELSE d

\* SELECT and PRAGMA table_info leave the database as they found it
Effect(d, kind) == d

\* Faulty variant: the WHERE clause is missing
IndexSelectNoWhere(index, item) == index

\* SELECT Sheet FROM "Index" WHERE Item = ?     (all rows, in table order)
IndexSelect(index, item) == SelectSeq(index, LAMBDA r : SqlEq(r.Item, item))

\* cursor.fetchone(): the first row of the result, or nothing
FetchOne(rows) == Take(rows, 1)

\* PRAGMA table_info("sheet"): the column names, empty for an unknown table
TableInfo(d, sheet) == IF HasTable(d, sheet) THEN d.tables[sheet].cols ELSE <<>>

RECURSIVE SampleScan(_, _, _, _)
SampleScan(rows, item, i, acc) ==
    IF i > Len(rows) \/ Len(acc) >= SampleLimit THEN acc
    ELSE SampleScan(rows, item, i + 1,
                    IF SqlEq(rows[i].Item, item) THEN Append(acc, rows[i]) ELSE acc)

\* Faulty variant: the limit cuts the table before the WHERE clause filters
SampleRowsLimitFirst(t, item) ==
    SelectSeq(Take(t.rows, SampleLimit), LAMBDA r : SqlEq(r.Item, item))

\* SELECT * FROM "sheet" WHERE Item = ? LIMIT 5
SampleRows(t, item) == SampleScan(t.rows, item, 1, <<>>)

\* why the sample SELECT fails to compile, Null when it compiles
SampleError(d, sheet) ==
    IF ~HasTable(d, sheet) THEN "no such table: " \o sheet
    ELSE IF "Item" \notin Range(d.tables[sheet].cols) THEN "no such column: Item"
    ELSE Null

RECURSIVE DistinctScan(_, _, _, _, _)
DistinctScan(rows, col, item, i, acc) ==
    IF i > Len(rows) \/ Len(acc) >= DistinctLimit THEN acc
    ELSE DistinctScan(rows, col, item, i + 1,
            IF /\ SqlEq(rows[i].Item, item)
               /\ rows[i][col] # Null
               /\ rows[i][col] \notin Range(acc)
            THEN Append(acc, rows[i][col]) ELSE acc)

RECURSIVE DistinctScanWithNull(_, _, _, _, _)
DistinctScanWithNull(rows, col, item, i, acc) ==
    IF i > Len(rows) \/ Len(acc) >= DistinctLimit THEN acc
    ELSE DistinctScanWithNull(rows, col, item, i + 1,
            IF SqlEq(rows[i].Item, item) /\ rows[i][col] \notin Range(acc)
            THEN Append(acc, rows[i][col]) ELSE acc)

\* Faulty variant: the IS NOT NULL condition is missing
DistinctValuesWithNull(t, col, item) == DistinctScanWithNull(t.rows, col, item, 1, <<>>)

\* SELECT DISTINCT "col" FROM "sheet" WHERE Item = ? AND "col" IS NOT NULL LIMIT 10
DistinctValues(t, col, item) == DistinctScan(t.rows, col, item, 1, <<>>)

\* "col" names no column of the table: a build that accepts double-quoted
\* string literals reads it as the text 'col', any other build rejects it
DistinctLiteral(t, col, item) ==
    IF IndexSelect(t.rows, item) = <<>> THEN <<>> ELSE <<col>>

\* Faulty variant: every interesting column is queried
ShouldQueryAlways(col, cols) == TRUE

\* the test "if col in columns"
ShouldQuery(col, cols) == col \in Range(cols)

\* where control goes when print_table_info returns
AfterCall(i) == IF i < Len(Items) THEN "resolve" ELSE "finally"

-----------------------------------------------------------------------------
(* inspect_db.py *)

\* Faulty variant: the message is printed but the process is not ended
CheckExistsNoExit ==
    /\ script = "inspect_db" /\ pc = "check"
    /\ out' = IF fileState = "missing"
              THEN Append(out, P("dbmissing", Null, "Database not found"))
              ELSE out
    /\ pc' = "connect"
    /\ UNCHANGED <<script, fileState, db, workbook, conn, opens, closes, itemIdx,
                   sheet_name, columns, ci, si, err, queries, exitStatus>>

CheckExists ==
    /\ script = "inspect_db" /\ pc = "check"
    /\ IF fileState = "missing"
       THEN /\ out' = Append(out, P("dbmissing", Null, "Database not found"))
            /\ pc' = "exited"
            /\ exitStatus' = <<1>>
       ELSE /\ pc' = "connect"
            /\ UNCHANGED <<out, exitStatus>>
    /\ UNCHANGED <<script, fileState, db, workbook, conn, opens, closes, itemIdx,
                   sheet_name, columns, ci, si, err, queries>>

\* sqlite3.connect opens the file, creating an empty database when there is
\* none; it is outside the try, so its exception ends the process
Connect ==
    /\ script = "inspect_db" /\ pc = "connect"
    /\ IF fileState = "unopenable"
       THEN /\ out' = Append(out, P("traceback", Null, "unable to open database file"))
            /\ pc' = "exited"
            /\ exitStatus' = <<1>>
            /\ UNCHANGED <<conn, opens, itemIdx>>
       ELSE /\ conn' = "open"
            /\ opens' = opens + 1
            /\ itemIdx' = 1
            /\ pc' = "resolve"
            /\ UNCHANGED <<out, exitStatus>>
    /\ UNCHANGED <<script, fileState, db, workbook, closes,
                   sheet_name, columns, ci, si, err, queries>>

IndexError ==
    IF fileState = "corrupt" THEN "file is not a database"
    ELSE IF ~db.hasIndex THEN "no such table: Index"
    ELSE Null

Resolve ==
    /\ script = "inspect_db" /\ pc = "resolve"
    /\ LET item == Items[itemIdx]
           hdr  == Append(out, P("header", item, item))
       IN IF IndexError # Null
          THEN /\ err' = IndexError
               /\ pc' = "except"
               /\ out' = hdr
               /\ queries' = Append(queries, Q("index", item, "Index", Null, TRUE, <<>>))
               /\ UNCHANGED <<itemIdx, sheet_name>>
          ELSE LET row == FetchOne(IndexSelect(db.index, item)) IN
               /\ queries' = Append(queries, Q("index", item, "Index", Null, FALSE, row))
               /\ IF row = <<>>
                  THEN /\ out' = Append(hdr, P("notfound", item, item))
                       /\ pc' = AfterCall(itemIdx)
                       /\ itemIdx' = IF itemIdx < Len(Items) THEN itemIdx + 1 ELSE itemIdx
                       /\ UNCHANGED sheet_name
                  ELSE /\ sheet_name' = row[1].Sheet
                       /\ out' = Append(hdr, P("sheet", item, row[1].Sheet))
                       /\ pc' = "columns"
                       /\ UNCHANGED itemIdx
               /\ UNCHANGED err
    /\ db' = Effect(db, "index")
    /\ UNCHANGED <<script, fileState, workbook, conn, opens, closes,
                   columns, ci, si, exitStatus>>

ListColumns ==
    /\ script = "inspect_db" /\ pc = "columns"
    /\ LET item == Items[itemIdx]
           cols == TableInfo(db, sheet_name)
       IN /\ columns' = cols
          /\ queries' = Append(queries, Q("table_info", item, sheet_name, Null, FALSE, cols))
          /\ out' = Append(out, P("columns", item, cols))
    /\ pc' = "sample"
    /\ db' = Effect(db, "table_info")
    /\ UNCHANGED <<script, fileState, workbook, conn, opens, closes, itemIdx,
                   sheet_name, ci, si, err, exitStatus>>

Sample ==
    /\ script = "inspect_db" /\ pc = "sample"
    /\ LET item == Items[itemIdx]
           hdr  == Append(out, P("samplehdr", item, Null))
           e    == SampleError(db, sheet_name)
       IN IF e # Null
          THEN /\ err' = e
               /\ pc' = "except"
               /\ out' = hdr
               /\ queries' = Append(queries, Q("sample", item, sheet_name, Null, TRUE, <<>>))
               /\ UNCHANGED ci
          ELSE LET rows == SampleRows(db.tables[sheet_name], item) IN
               /\ queries' = Append(queries, Q("sample", item, sheet_name, Null, FALSE, rows))
               /\ out' = (hdr \o [i \in 1..Len(rows) |-> P("row", item, rows[i])])
                            \o <<P("distincthdr", item, Null)>>
               /\ ci' = 1
               /\ pc' = "distinct"
               /\ UNCHANGED err
    /\ db' = Effect(db, "sample")
    /\ UNCHANGED <<script, fileState, workbook, conn, opens, closes, itemIdx,
                   sheet_name, columns, si, exitStatus>>

\* one iteration of the loop over the interesting columns
DistinctColumn ==
    /\ script = "inspect_db" /\ pc = "distinct"
    /\ LET item == Items[itemIdx]
           col  == InterestingColumns[ci]
           t    == db.tables[sheet_name]
           last == ci = Len(InterestingColumns)
           next == /\ pc' = IF last THEN AfterCall(itemIdx) ELSE "distinct"
                   /\ ci' = IF last THEN ci ELSE ci + 1
                   /\ itemIdx' = IF last /\ itemIdx < Len(Items)
                                 THEN itemIdx + 1 ELSE itemIdx
                   /\ UNCHANGED err
       IN IF ShouldQuery(col, columns)
          THEN \E dqs \in BOOLEAN :
               IF col \in Range(t.cols) \/ dqs
               THEN LET vals == IF col \in Range(t.cols)
                                THEN DistinctValues(t, col, item)
                                ELSE DistinctLiteral(t, col, item)
                    IN /\ queries' = Append(queries,
                                        Q("distinct", item, sheet_name, col, FALSE, vals))
                       /\ out' = Append(out, P("values", item, <<col, vals>>))
                       /\ next
               ELSE /\ err' = "no such column: " \o col
                    /\ pc' = "except"
                    /\ queries' = Append(queries,
                                     Q("distinct", item, sheet_name, col, TRUE, <<>>))
                    /\ UNCHANGED <<out, ci, itemIdx>>
          ELSE /\ next
               /\ UNCHANGED <<out, queries>>
    /\ db' = Effect(db, "distinct")
    /\ UNCHANGED <<script, fileState, workbook, conn, opens, closes,
                   sheet_name, columns, si, exitStatus>>

\* Faulty variant: the close is on the success path only
ExceptSkipsFinally ==
    /\ script = "inspect_db" /\ pc = "except"
    /\ out' = Append(out, P("error", Null, err))
    /\ pc' = "end"
    /\ UNCHANGED <<script, fileState, db, workbook, conn, opens, closes, itemIdx,
                   sheet_name, columns, ci, si, err, queries, exitStatus>>

\* Faulty variant: the handler is per item and the run goes on
ExceptContinues ==
    /\ script = "inspect_db" /\ pc = "except"
    /\ out' = Append(out, P("error", Null, err))
    /\ pc' = AfterCall(itemIdx)
    /\ itemIdx' = IF itemIdx < Len(Items) THEN itemIdx + 1 ELSE itemIdx
    /\ UNCHANGED <<script, fileState, db, workbook, conn, opens, closes,
                   sheet_name, columns, ci, si, err, queries, exitStatus>>

Except ==
    /\ script = "inspect_db" /\ pc = "except"
    /\ out' = Append(out, P("error", Null, err))
    /\ pc' = "finally"
    /\ UNCHANGED <<script, fileState, db, workbook, conn, opens, closes, itemIdx,
                   sheet_name, columns, ci, si, err, queries, exitStatus>>

Finally ==
    /\ script = "inspect_db" /\ pc = "finally"
    /\ conn' = "closed"
    /\ closes' = closes + 1
    /\ pc' = "end"
    /\ UNCHANGED <<script, fileState, db, workbook, opens, itemIdx,
                   sheet_name, columns, ci, si, err, out, queries, exitStatus>>

-----------------------------------------------------------------------------
(* read_excel.py *)

XlOpen ==
    /\ script = "read_excel" /\ pc = "xl_open"
    /\ IF ~workbook.openable
       THEN /\ err' = "No such file or directory: Schedule.xlsx"
            /\ pc' = "xl_except"
            /\ UNCHANGED <<out, si>>
       ELSE /\ out' = Append(out, P("sheetnames", Null, SheetNames(workbook)))
            /\ si' = 1
            /\ pc' = IF workbook.sheets = <<>> THEN "end" ELSE "xl_sheet"
            /\ UNCHANGED err
    /\ UNCHANGED <<script, fileState, db, workbook, conn, opens, closes, itemIdx,
                   sheet_name, columns, ci, queries, exitStatus>>

\* Faulty variant: the handler is per sheet and the loop goes on
XlSheetContinues ==
    /\ script = "read_excel" /\ pc = "xl_sheet"
    /\ LET name == SheetNames(workbook)[si]
           sh   == workbook.sheets[si]
           hdr  == Append(out, P("xlheader", name, name))
       IN /\ IF ~sh.readable
             THEN /\ err' = "cannot read " \o name
                  /\ out' = Append(hdr, P("xlerror", Null, "cannot read " \o name))
             ELSE /\ out' = Append(hdr, P("df", name, Min(sh.nrows, PreviewRows)))
                  /\ UNCHANGED err
          /\ pc' = IF si < Len(workbook.sheets) THEN "xl_sheet" ELSE "end"
          /\ si' = IF si < Len(workbook.sheets) THEN si + 1 ELSE si
    /\ UNCHANGED <<script, fileState, db, workbook, conn, opens, closes, itemIdx,
                   sheet_name, columns, ci, queries, exitStatus>>

\* one iteration of the loop over xls.sheet_names
XlSheet ==
    /\ script = "read_excel" /\ pc = "xl_sheet"
    /\ LET name == SheetNames(workbook)[si]
           sh   == workbook.sheets[si]
           hdr  == Append(out, P("xlheader", name, name))
       IN IF ~sh.readable
          THEN /\ err' = "cannot read " \o name
               /\ pc' = "xl_except"
               /\ out' = hdr
               /\ UNCHANGED si
          ELSE /\ out' = Append(hdr, P("df", name, Min(sh.nrows, PreviewRows)))
               /\ pc' = IF si < Len(workbook.sheets) THEN "xl_sheet" ELSE "end"
               /\ si' = IF si < Len(workbook.sheets) THEN si + 1 ELSE si
               /\ UNCHANGED err
    /\ UNCHANGED <<script, fileState, db, workbook, conn, opens, closes, itemIdx,
                   sheet_name, columns, ci, queries, exitStatus>>

\* Faulty variant: the handler ends the process with status 1
XlExceptExits ==
    /\ script = "read_excel" /\ pc = "xl_except"
    /\ out' = Append(out, P("xlerror", Null, err))
    /\ pc' = "exited"
    /\ exitStatus' = <<1>>
    /\ UNCHANGED <<script, fileState, db, workbook, conn, opens, closes, itemIdx,
                   sheet_name, columns, ci, si, err, queries>>

XlExcept ==
    /\ script = "read_excel" /\ pc = "xl_except"
    /\ out' = Append(out, P("xlerror", Null, err))
    /\ pc' = "end"
    /\ UNCHANGED <<script, fileState, db, workbook, conn, opens, closes, itemIdx,
                   sheet_name, columns, ci, si, err, queries, exitStatus>>

-----------------------------------------------------------------------------
\* the interpreter runs off the end of the script
ProcessEnd ==
    /\ pc = "end"
    /\ pc' = "exited"
    /\ exitStatus' = <<0>>
    /\ UNCHANGED <<script, fileState, db, workbook, conn, opens, closes, itemIdx,
                   sheet_name, columns, ci, si, err, out, queries>>

Init ==
    /\ \/ /\ script = "inspect_db"
          /\ pc = "check"
          /\ workbook = NoWorkbook
          /\ \/ fileState \in {"missing", "unopenable", "corrupt"} /\ db = NoDb
             \/ fileState = "ok" /\ db \in Databases
       \/ /\ script = "read_excel"
          /\ pc = "xl_open"
          /\ fileState = "ok"
          /\ db = NoDb
          /\ workbook \in Workbooks
    /\ conn = "none"
    /\ opens = 0
    /\ closes = 0
    /\ itemIdx = 1
    /\ sheet_name = Null
    /\ columns = <<>>
    /\ ci = 1
    /\ si = 1
    /\ err = Null
    /\ out = <<>>
    /\ queries = <<>>
    /\ exitStatus = <<>>

Next ==
    \/ CheckExists
    \/ Connect
    \/ Resolve
    \/ ListColumns
    \/ Sample
    \/ DistinctColumn
    \/ Except
    \/ Finally
    \/ XlOpen
    \/ XlSheet
    \/ XlExcept
    \/ ProcessEnd

Spec == Init /\ [][Next]_vars

-----------------------------------------------------------------------------
(* Vocabulary of the properties *)

Printed(k) == SelectSeq(out, LAMBDA o : o.k = k)

PrintedFor(k, item) == SelectSeq(out, LAMBDA o : o.k = k /\ o.item = item)

QueriesFor(kind, item) == SelectSeq(queries, LAMBDA q : q.kind = kind /\ q.item = item)

Count(s, x) == Cardinality({i \in 1..Len(s) : s[i] = x})

Inspector == script = "inspect_db"

Previewer == script = "read_excel"

Ended == pc \in {"end", "exited"}

\* rows of a table the WHERE clause of the item selects, in table order
Matching(t, item) == SelectSeq(t.rows, LAMBDA r : r.Item # Null /\ r.Item = item)

-----------------------------------------------------------------------------
\* C1: the connection is acquired at most once, released exactly once on
\* every path that acquired it (normal completion, early return on a
\* not-found item, exception partway), no inspection step runs after the
\* release and the process never ends with the connection open.
C1_ConnectionReleasedOnce ==
    Inspector =>
        /\ opens <= 1
        /\ closes <= opens
        /\ (conn = "open") = (opens = 1 /\ closes = 0)
        /\ (conn = "closed") = (closes = 1)
        /\ conn = "closed" => Ended
        /\ conn = "none" => queries = <<>>
        /\ pc = "exited" => conn # "open"
        /\ pc = "exited" /\ opens = 1 => closes = 1

C1_Witness ==
    /\ Inspector /\ pc = "exited"
    /\ err # Null /\ Len(queries) > 4
    /\ Printed("notfound") # <<>>
    /\ opens = 1 /\ closes = 1

-----------------------------------------------------------------------------
\* C2: an item the Index has a row for resolves to exactly that row's Sheet;
\* an item the Index has no row for prints the not-found message, raises
\* nothing, runs none of the column-list, sample-row and distinct-value
\* steps, and the next hardcoded item is still inspected.
C2_ResolveOrNotFound ==
    Inspector /\ fileState = "ok" /\ db.hasIndex =>
        \A n \in 1..Len(queries) :
            LET q    == queries[n]
                hits == {i \in 1..Len(db.index) : db.index[i].Item = q.item}
                k    == CHOOSE i \in 1..Len(Items) : Items[i] = q.item
            IN q.kind = "index" =>
                /\ ~q.raised
                /\ hits # {} =>
                      \E i \in hits :
                        /\ \A j \in hits : j = i
                        /\ q.result = <<db.index[i]>>
                        /\ PrintedFor("sheet", q.item) =
                              <<P("sheet", q.item, db.index[i].Sheet)>>
                        /\ PrintedFor("notfound", q.item) = <<>>
                        /\ \A m \in 1..Len(queries) :
                              queries[m].item = q.item /\ m # n
                                  => queries[m].sheet = db.index[i].Sheet
                /\ hits = {} =>
                      /\ q.result = <<>>
                      /\ PrintedFor("notfound", q.item) = <<P("notfound", q.item, q.item)>>
                      /\ \A m \in 1..Len(queries) : queries[m].item = q.item => m = n
                      /\ \A i \in 1..Len(out) :
                            out[i].item = q.item => out[i].k \in {"header", "notfound"}
                      /\ err # Null => queries[Len(queries)].item # q.item
                      /\ k < Len(Items) =>
                            \/ itemIdx = k + 1 /\ pc = "resolve"
                            \/ PrintedFor("header", Items[k + 1]) # <<>>

C2_Witness ==
    /\ Inspector /\ pc = "exited" /\ err = Null
    /\ PrintedFor("notfound", "MCCB") # <<>>
    /\ PrintedFor("sheet", "MCB") = <<P("sheet", "MCB", "S1")>>
    /\ PrintedFor("values", "MCB") # <<>>

-----------------------------------------------------------------------------
\* C3 as stated: every failure of the run, the missing database file and the
\* connection error included, is caught at the top level, printed exactly
\* once, and followed by the connection-close step.
C3_Original ==
    Inspector /\ pc = "exited"
              /\ (fileState \in {"missing", "unopenable"} \/ err # Null) =>
        /\ Len(Printed("error")) = 1
        /\ closes = 1

C3_CaughtState ==
    Inspector =>
        /\ Len(Printed("error")) <= 1
        /\ err = Null => Printed("error") = <<>>
        /\ err # Null =>
              /\ pc \in {"except", "finally", "end", "exited"}
              /\ queries # <<>>
              /\ \A n \in 1..Len(queries) : queries[n].raised = (n = Len(queries))
              /\ \A n, m \in 1..Len(queries) :
                    /\ queries[n].kind = queries[m].kind
                    /\ queries[n].item = queries[m].item
                    /\ queries[n].col = queries[m].col
                    => n = m
              /\ Len(Printed("header")) = itemIdx
              /\ \A i \in 1..itemIdx : Printed("header")[i].item = Items[i]
              /\ queries[Len(queries)].item = Items[itemIdx]
              /\ pc = "except" => Printed("error") = <<>>
              /\ pc # "except" => /\ Printed("error") = <<P("error", Null, err)>>
                                  /\ out[Len(out)].k = "error"
              /\ Ended => conn = "closed" /\ closes = 1

\* C3 (amended): an exception raised inside the try block, by any of the four
\* inspections, is caught once, its message is printed exactly once, the
\* close step follows, the failed item is not retried, no later item is
\* inspected, and what was printed before stays printed.
C3_CaughtInTry == []C3_CaughtState /\ [][IsPrefix(out, out')]_vars

C3_Witness ==
    /\ Inspector /\ pc = "exited" /\ err # Null
    /\ itemIdx = 2
    /\ Len(Printed("row")) > 0
    /\ closes = 1
    /\ exitStatus = <<0>>

-----------------------------------------------------------------------------
\* C4 as stated: every run of either script ends with the exit status of a
\* fully successful run.
C4_Original == pc = "exited" => exitStatus = <<0>>

\* C4 (amended): a failure inside the try block of either script (missing
\* item, failed query, unreadable database content, failed spreadsheet open
\* or read) is only printed and the process ends with status 0; a missing
\* database file and a failed connect end the Database Inspector with
\* status 1.
C4_ExitStatus ==
    /\ (exitStatus = <<>>) = (pc # "exited")
    /\ pc = "exited" =>
        /\ exitStatus =
              IF Inspector /\ fileState \in {"missing", "unopenable"} THEN <<1>> ELSE <<0>>
        /\ Inspector /\ fileState = "missing" => Len(Printed("dbmissing")) = 1
        /\ Inspector /\ err # Null => Len(Printed("error")) = 1
        /\ Previewer /\ err # Null => Len(Printed("xlerror")) = 1

C4_Witness ==
    /\ Previewer /\ pc = "exited" /\ err # Null
    /\ Printed("df") # <<>>
    /\ exitStatus = <<0>>

-----------------------------------------------------------------------------
\* C5: with no database file the inspector reports it and stops: nothing is
\* connected, inspected, queried or closed.
C5_MissingFileStops ==
    Inspector /\ fileState = "missing" =>
        /\ pc \in {"check", "exited"}
        /\ conn = "none" /\ opens = 0 /\ closes = 0
        /\ queries = <<>>
        /\ Printed("header") = <<>>
        /\ pc = "exited" => Printed("dbmissing") = out /\ Len(out) = 1

C5_Witness ==
    Inspector /\ fileState = "missing" /\ pc = "exited" /\ Len(out) = 1

-----------------------------------------------------------------------------
\* C6: the sample-row step returns at most 5 rows, only rows of the resolved
\* table whose Item equals the queried item, and all of them when at most 5
\* match.
C6_SampleRows ==
    \A n \in 1..Len(queries) :
        LET q == queries[n] IN
        q.kind = "sample" /\ ~q.raised =>
            LET all == Matching(db.tables[q.sheet], q.item) IN
            /\ Len(q.result) <= 5
            /\ Len(q.result) = Min(5, Len(all))
            /\ \A i \in 1..Len(q.result) :
                  /\ q.result[i].Item = q.item
                  /\ Count(q.result, q.result[i]) <= Count(all, q.result[i])
            /\ Len(all) <= 5 =>
                  \A i \in 1..Len(all) : Count(q.result, all[i]) = Count(all, all[i])
            /\ PrintedFor("row", q.item) =
                  [i \in 1..Len(q.result) |-> P("row", q.item, q.result[i])]

C6_Witness ==
    \E n \in 1..Len(queries) :
        /\ queries[n].kind = "sample" /\ ~queries[n].raised
        /\ Len(queries[n].result) = 5
        /\ Len(Matching(db.tables[queries[n].sheet], queries[n].item)) > 5
        /\ Len(db.tables[queries[n].sheet].rows) >
              Len(Matching(db.tables[queries[n].sheet], queries[n].item))

-----------------------------------------------------------------------------
\* C7: the distinct-value step returns at most 10 values, none of them null,
\* no value twice, each of them found in that column of a row of the
\* queried item.
C7_DistinctValues ==
    \A n \in 1..Len(queries) :
        LET q == queries[n] IN
        q.kind = "distinct" /\ ~q.raised =>
            /\ Len(q.result) <= 10
            /\ Null \notin Range(q.result)
            /\ \A i, j \in 1..Len(q.result) : q.result[i] = q.result[j] => i = j
            /\ \A v \in Range(q.result) :
                  \E r \in Range(db.tables[q.sheet].rows) :
                      r.Item = q.item /\ r[q.col] = v

C7_Witness ==
    \E n \in 1..Len(queries) :
        LET q == queries[n] IN
        /\ q.kind = "distinct" /\ ~q.raised
        /\ Len(q.result) = 10
        /\ LET rs == Matching(db.tables[q.sheet], q.item) IN
           /\ Cardinality({rs[i][q.col] : i \in 1..Len(rs)} \ {Null}) > 10
           /\ \E i \in 1..Len(rs) : rs[i][q.col] = Null

C7_WitnessOtherItems ==
    \E n \in 1..Len(queries) :
        LET q == queries[n] IN
        /\ q.kind = "distinct" /\ ~q.raised
        /\ q.result # <<>>
        /\ \E r \in Range(db.tables[q.sheet].rows) :
              /\ r.Item # q.item
              /\ r[q.col] # Null
              /\ r[q.col] \notin Range(q.result)

-----------------------------------------------------------------------------
\* C8: no step of a run changes the content of the Index or of any table.
C8_ReadOnly == [][db' = db]_vars

C8_Witness ==
    /\ Inspector /\ pc = "exited" /\ conn = "closed"
    /\ \A kind \in {"index", "table_info", "sample", "distinct"} :
          \E n \in 1..Len(queries) : queries[n].kind = kind
    /\ \E n \in 1..Len(queries) : queries[n].raised

-----------------------------------------------------------------------------
\* C9: a failed open prints exactly one error message and neither the sheet
\* names nor any preview; a failure of the open or of any sheet's read is
\* caught by the one handler, prints exactly one error message, and no sheet
\* after the failing one is previewed.
C9_PreviewerFailure ==
    Previewer =>
        /\ Len(Printed("xlerror")) <= 1
        /\ err = Null => Printed("xlerror") = <<>>
        /\ ~workbook.openable =>
              /\ Printed("sheetnames") = <<>>
              /\ Printed("xlheader") = <<>>
              /\ Printed("df") = <<>>
              /\ Ended => Len(out) = 1 /\ out[1].k = "xlerror" /\ out[1].a = err
        /\ err # Null =>
              /\ pc \in {"xl_except", "end", "exited"}
              /\ Ended => /\ Printed("xlerror") = <<P("xlerror", Null, err)>>
                          /\ out[Len(out)].k = "xlerror"
              /\ workbook.openable =>
                    /\ ~workbook.sheets[si].readable
                    /\ Len(Printed("xlheader")) = si
                    /\ Len(Printed("df")) = si - 1
                    /\ \A i \in 1..Len(Printed("df")) :
                          Printed("df")[i].item = SheetNames(workbook)[i]

C9_Witness ==
    /\ Previewer /\ pc = "exited" /\ err # Null
    /\ workbook.openable
    /\ si = 2 /\ Len(workbook.sheets) = 3
    /\ workbook.sheets[3].readable

C9_WitnessOpen ==
    Previewer /\ pc = "exited" /\ ~workbook.openable /\ Len(out) = 1

-----------------------------------------------------------------------------
\* C10: a distinct-value query is issued only for an interesting column that
\* the resolved table has; a table lacking interesting columns never makes
\* the inspection fail; the columns reported are the interesting columns
\* present, in allow-list order.
C10_OnlyPresentColumns ==
    Inspector =>
        /\ \A n \in 1..Len(queries) :
              LET q == queries[n] IN
              q.kind = "distinct" =>
                  /\ q.col \in Range(InterestingColumns)
                  /\ HasTable(db, q.sheet)
                  /\ q.col \in Range(db.tables[q.sheet].cols)
                  /\ q.col \in Range(QueriesFor("table_info", q.item)[1].result)
                  /\ ~q.raised
        /\ \A k \in 1..Len(Items) :
              PrintedFor("distincthdr", Items[k]) # <<>> =>
                  LET s        == PrintedFor("sheet", Items[k])[1].a
                      vs       == PrintedFor("values", Items[k])
                      reported == [i \in 1..Len(vs) |-> vs[i].a[1]]
                      expected == SelectSeq(InterestingColumns,
                                      LAMBDA c : c \in Range(db.tables[s].cols))
                  IN /\ IsPrefix(reported, expected)
                     /\ (k < itemIdx \/ pc \in {"finally", "end", "exited"})
                            => reported = expected
        /\ pc = "distinct" => err = Null

C10_Witness ==
    /\ Inspector /\ pc = "exited" /\ err = Null
    /\ HasTable(db, "S1") /\ db.tables["S1"].cols = Layouts[2]
    /\ \E k \in 1..Len(Items) :
          LET vs == PrintedFor("values", Items[k]) IN
          /\ Len(vs) = 3
          /\ vs[1].a[1] = "Type" /\ vs[2].a[1] = "Company"
          /\ vs[3].a[1] = "Breaking Capacity"

====
